---- MODULE Spec2Model ----
(***************************************************************************)
(* The real-time signalling relay of backend/app.py: the Socket.IO event   *)
(* handlers connect, disconnect, authenticate, join_room, leave_room and   *)
(* webrtc_signal, the per-connection session, the transport rooms and the  *)
(* room documents of the store.                                            *)
(*                                                                         *)
(* The handlers run as green threads (async_mode='eventlet'), so a handler *)
(* can be suspended at each call into the store.  A handler is therefore   *)
(* a sequence of steps, one per store call: a step is the store call       *)
(* together with all the handler code that follows it up to the next store *)
(* call.  The position and the local variables of a suspended handler are  *)
(* kept in frame[sid].  A connection has at most one handler in flight.    *)
(* Under Spec a handler runs to its end before the next event is handled;  *)
(* under SpecConc the handlers of different connections interleave at      *)
(* their store calls.                                                      *)
(***************************************************************************)
EXTENDS Integers, Sequences, FiniteSets, TLC

(***************************************************************************)
(* Bounds of the model.                                                    *)
(***************************************************************************)
\* longest participants list of a room (joins in flight included)
MaxParticipants == 3
\* longest message log of a room (signals in flight included)
MaxMessages == 1

Sids == {"s1", "s2", "s3"}
RoomIds == {"r1"}

(***************************************************************************)
(* Values of the JSON payloads.  A user id or target id is a typed value:  *)
(* ty is its Python type and tx its text, so that str() is a conversion.   *)
(***************************************************************************)
None == [ty |-> "none", tx |-> "None"]
StrVal(t) == [ty |-> "str", tx |-> t]
IntVal(t) == [ty |-> "int", tx |-> t]

\* str(x) of Python, as used at app.py:323
PyStr(x) == x.tx

\* truthiness of a payload value ("if target_id:", "if not token:")
Truthy(x) == x.ty # "none" /\ x.tx # "" /\ ~(x.ty = "int" /\ x.tx = "0")

UserIds == {StrVal("1"), StrVal("2"), StrVal("3")}

\* the target_id values a client sends: absent, the id of user 2 as the
\* tokens carry it, and the id of user 1 sent as a JSON number
TargetIds == {None, StrVal("2"), IntVal("1")}

\* the signal payloads a client sends: absent or an (opaque) offer
NoSignal == "none"
Signals == {"offer"}

\* the room_id values a client sends: absent or a room name
NoRoomId == "none"

(***************************************************************************)
(* Tokens.  jwt.decode either raises or returns the claims of the token.   *)
(***************************************************************************)
NoToken == "none"
BadToken == "bad"
ValidTokens == {"t1", "t2", "t3"}
Tokens == ValidTokens \cup {BadToken, NoToken}

TokenClaims(token) ==
    CASE token = "t1" -> [user_id |-> StrVal("1"), role |-> "patient"]
      [] token = "t2" -> [user_id |-> StrVal("2"), role |-> "doctor"]
      [] token = "t3" -> [user_id |-> StrVal("3"), role |-> "patient"]

(***************************************************************************)
(* The clients.  s1 is user 1, s2 is user 2, and s3 is user 3 or a second  *)
(* connection of user 2.                                                   *)
(***************************************************************************)
\* the tokens a connection presents
TokensOf(sid) ==
    CASE sid = "s1" -> {"t1", BadToken, NoToken}
      [] sid = "s2" -> {"t2"}
      [] sid = "s3" -> {"t3", "t2"}

\* the connections that send leave_room, that send webrtc_signal and that
\* the transport closes
Leavers == {"s3"}
Senders == {"s1"}
Closers == {"s2"}

\* the webrtc_signal payloads sent: the valid ones, one without room_id and
\* one without signal
SignalInputs ==
    {[room_id |-> r, signal |-> g, target_id |-> t] :
        r \in RoomIds, g \in Signals, t \in TargetIds}
    \cup {[room_id |-> NoRoomId, signal |-> "offer", target_id |-> None],
          [room_id |-> "r1", signal |-> NoSignal, target_id |-> None]}


(***************************************************************************)
(* State.                                                                  *)
(***************************************************************************)
VARIABLES
    conn,       \* sid -> "open" or "closed": the transport connection
    session,    \* sid -> the Socket.IO session of the connection
    trooms,     \* room name -> the sids in that Socket.IO room
    db,         \* room_id -> the room document of the store
    frame,      \* sid -> position and locals of the handler in flight
    last,       \* the handler step taken last
    out         \* the events emitted by that step, one record per recipient

vars == <<conn, session, trooms, db, frame, last, out>>

\* get_session of a connection that never saved one returns {}
NoSession == [bound |-> FALSE, user_id |-> None, user_role |-> "none"]

NoDoc == [exists |-> FALSE, created_by |-> None, status |-> "none",
          participants |-> <<>>, messages |-> <<>>]

\* the transport rooms and documents as a join_room event finds them: a
\* history kept with the handler for the properties, never read by it
NoHistory == [trooms |-> [r \in RoomIds |-> {}], db |-> [r \in RoomIds |-> NoDoc]]

Idle == [pc |-> "idle", user_id |-> None, user_role |-> "none",
         room_id |-> NoRoomId, signal |-> NoSignal, target_id |-> None,
         before |-> NoHistory]

Step(op, sid, f, res) ==
    [op |-> op, sid |-> sid, res |-> res, user_id |-> f.user_id,
     user_role |-> f.user_role, room_id |-> f.room_id, signal |-> f.signal,
     target_id |-> f.target_id]

\* The clients have connected: handle_connect (app.py:145) has greeted each
\* of them and has left no state behind.
Init ==
    /\ conn = [s \in Sids |-> "open"]
    /\ session = [s \in Sids |-> NoSession]
    /\ trooms = [r \in RoomIds |-> {}]
    /\ db = [r \in RoomIds |-> NoDoc]
    /\ frame = [s \in Sids |-> Idle]
    /\ last = Step("none", "none", Idle, "none")
    /\ out = {}

(***************************************************************************)
(* The transport (flask_socketio).                                         *)
(***************************************************************************)
Msg(to, event, user_id, user_role, text) ==
    [to |-> to, event |-> event, user_id |-> user_id, user_role |-> user_role,
     text |-> text]

\* emit(event, ...) inside a handler, no room given: to the caller
EmitSelf(sid, event, user_id, user_role, text) ==
    {Msg(d, event, user_id, user_role, text) : d \in {e \in {sid} : conn[e] = "open"}}

\* emit(event, ..., room=a room name, skip_sid=skip): to the members of the room
EmitRoom(members, skip, event, user_id, user_role, text) ==
    {Msg(d, event, user_id, user_role, text) : d \in members \ skip}

\* emit(event, ..., room=a sid): every connection is in the room named by its sid
EmitSid(target, event, user_id, user_role, text) ==
    {Msg(d, event, user_id, user_role, text) : d \in {e \in Sids : e = target /\ conn[e] = "open"}}

\* the events of the step before have been written to the connections
Flushed == last.op = "none"

\* an event arrives on an open connection with no handler in flight
Ready(sid) == Flushed /\ conn[sid] = "open" /\ frame[sid].pc = "idle"

\* a suspended handler is resumed at the store call named pc
Resumed(sid, pc) == Flushed /\ frame[sid].pc = pc

(***************************************************************************)
(* The room store (models.WebRTCRoom): one document per room_id.           *)
(***************************************************************************)
FindByRoomId(d, room_id) == d[room_id]

\* create: an upsert by room_id; the base fields are written, the
\* participants and messages of an existing document are kept
RoomCreate(d, room_data) ==
    [d EXCEPT ![room_data.room_id] =
        IF @.exists
        THEN [@ EXCEPT !.created_by = room_data.created_by,
                       !.status = room_data.status]
        ELSE [exists |-> TRUE, created_by |-> room_data.created_by,
              status |-> room_data.status,
              participants |-> room_data.participants,
              messages |-> room_data.messages]]

\* add_participant: an atomic append to the participants of the document
AddParticipant(d, room_id, participant) ==
    [d EXCEPT ![room_id] =
        IF @.exists
        THEN [@ EXCEPT !.participants = Append(@, participant)]
        ELSE @]

\* remove_participant: removes the participants with that user_id
RemoveParticipant(d, room_id, user_id) ==
    [d EXCEPT ![room_id] =
        [@ EXCEPT !.participants =
            SelectSeq(@, LAMBDA p : p.user_id # user_id)]]

\* add_message: an atomic append to the message log of the document
AddMessage(d, room_id, signal_data) ==
    [d EXCEPT ![room_id] =
        IF @.exists
        THEN [@ EXCEPT !.messages = Append(@, signal_data)]
        ELSE @]

(***************************************************************************)
(* connect, disconnect, authenticate.                                      *)
(***************************************************************************)
\* The transport closes the connection: the server drops its session and
\* takes it out of every room; the handler itself only logs.  A handler of
\* the connection that is in flight keeps running.
HandleDisconnect(sid) ==
    /\ Flushed
    /\ conn[sid] = "open"
    /\ conn' = [conn EXCEPT ![sid] = "closed"]
    /\ session' = [session EXCEPT ![sid] = NoSession]
    /\ trooms' = [r \in RoomIds |-> trooms[r] \ {sid}]
    /\ last' = Step("disconnect", sid, Idle, "closed")
    /\ out' = {}
    /\ UNCHANGED <<db, frame>>

\* jwt.decode(token, secret, algorithms=['HS256']) raises on a bad token
JwtDecodes(token) == token \in ValidTokens

\* mutant: a failed authenticate drops the identity bound to the connection
HandleAuthenticate_unbind(sid, token) ==
    /\ Ready(sid)
    /\ IF token = NoToken
       THEN /\ out' = EmitSelf(sid, "auth_error", None, "none", "No token provided")
            /\ last' = Step("authenticate", sid, Idle, "auth_error")
            /\ session' = [session EXCEPT ![sid] = NoSession]
       ELSE IF ~JwtDecodes(token)
       THEN /\ out' = EmitSelf(sid, "auth_error", None, "none", "exception")
            /\ last' = Step("authenticate", sid, Idle, "auth_error")
            /\ session' = [session EXCEPT ![sid] = NoSession]
       ELSE LET user_data == TokenClaims(token) IN
            /\ session' = [session EXCEPT ![sid] =
                   [bound |-> TRUE, user_id |-> user_data.user_id,
                    user_role |-> user_data.role]]
            /\ out' = EmitSelf(sid, "authenticated", user_data.user_id,
                               user_data.role, "success")
            /\ last' = Step("authenticate", sid,
                            [Idle EXCEPT !.user_id = user_data.user_id,
                                         !.user_role = user_data.role],
                            "authenticated")
    /\ UNCHANGED <<conn, trooms, db, frame>>

HandleAuthenticate(sid, token) ==
    /\ Ready(sid)
    /\ IF token = NoToken
       THEN /\ out' = EmitSelf(sid, "auth_error", None, "none", "No token provided")
            /\ last' = Step("authenticate", sid, Idle, "auth_error")
            /\ UNCHANGED session
       ELSE IF ~JwtDecodes(token)
       THEN /\ out' = EmitSelf(sid, "auth_error", None, "none", "exception")
            /\ last' = Step("authenticate", sid, Idle, "auth_error")
            /\ UNCHANGED session
       ELSE LET user_data == TokenClaims(token) IN
            /\ session' = [session EXCEPT ![sid] =
                   [bound |-> TRUE, user_id |-> user_data.user_id,
                    user_role |-> user_data.role]]
            /\ out' = EmitSelf(sid, "authenticated", user_data.user_id,
                               user_data.role, "success")
            /\ last' = Step("authenticate", sid,
                            [Idle EXCEPT !.user_id = user_data.user_id,
                                         !.user_role = user_data.role],
                            "authenticated")
    /\ UNCHANGED <<conn, trooms, db, frame>>

(***************************************************************************)
(* Pieces shared by join_room, leave_room and webrtc_signal.               *)
(***************************************************************************)
\* mutant: the check of the session is missing
NotAuthenticated_never(user_session) == FALSE

\* "if not user_session:" on the result of get_session
NotAuthenticated(user_session) == ~user_session.bound

\* the handler returns (or its except clause has run): no frame is left
Finish(sid) == frame' = [frame EXCEPT ![sid] = Idle]

\* the joins and signals of a room that are in flight
InFlight(room_id, pcs) ==
    Cardinality({s \in Sids : frame[s].pc \in pcs /\ frame[s].room_id = room_id})

(***************************************************************************)
(* join_room.                                                              *)
(***************************************************************************)
\* mutant: user_joined is emitted without skip_sid
UserJoinedTo_noskip(sid, room_id) == trooms[room_id]

\* app.py:233 - user_joined goes to the room, the joiner skipped
UserJoinedTo(sid, room_id) == trooms[room_id] \ {sid}

\* mutant: room_joined is emitted to the room
RoomJoinedAck_room(sid, room_id) ==
    {Msg(d, "room_joined", None, "none", room_id) : d \in trooms[room_id]}

\* app.py:239 - room_joined goes to the joiner
RoomJoinedAck(sid, room_id) ==
    EmitSelf(sid, "room_joined", None, "none", room_id)

\* app.py:186-203 - the session and room_id checks, then join_room(room_id)
JoinStart(sid, room_id) ==
    /\ Ready(sid)
    /\ LET user_session == session[sid]
           f == [Idle EXCEPT !.user_id = user_session.user_id,
                             !.user_role = user_session.user_role,
                             !.room_id = room_id]
       IN IF NotAuthenticated(user_session)
          THEN /\ out' = EmitSelf(sid, "room_error", None, "none", "Not authenticated")
               /\ last' = Step("join_room", sid, Idle, "unauthenticated")
               /\ UNCHANGED <<trooms, frame>>
          ELSE IF room_id = NoRoomId
          THEN /\ out' = EmitSelf(sid, "room_error", None, "none", "Room ID is required")
               /\ last' = Step("join_room", sid, Idle, "invalid")
               /\ UNCHANGED <<trooms, frame>>
          ELSE /\ Len(db[room_id].participants)
                    + InFlight(room_id, {"find", "create", "add"}) < MaxParticipants
               /\ trooms' = [trooms EXCEPT ![room_id] = @ \cup {sid}]
               /\ frame' = [frame EXCEPT ![sid] =
                      [f EXCEPT !.pc = "find",
                                !.before = [trooms |-> trooms, db |-> db]]]
               /\ last' = Step("join_room", sid, f, "pending")
               /\ out' = {}
    /\ UNCHANGED <<conn, session, db>>

\* the except clause of handle_join_room, app.py:244-246
JoinFails(sid) ==
    /\ out' = EmitSelf(sid, "room_error", None, "none", "exception")
    /\ last' = Step("join_room", sid, frame[sid], "store_error")
    /\ Finish(sid)
    /\ UNCHANGED <<conn, session, trooms, db>>

\* app.py:218-219 - find_by_room_id and "if not room:"
JoinFind(sid, ok) ==
    /\ Resumed(sid, "find")
    /\ IF ~ok THEN JoinFails(sid)
       ELSE LET room == FindByRoomId(db, frame[sid].room_id) IN
            /\ frame' = [frame EXCEPT ![sid].pc =
                            IF ~room.exists THEN "create" ELSE "add"]
            /\ last' = Step("join_room", sid, frame[sid], "pending")
            /\ out' = {}
            /\ UNCHANGED <<conn, session, trooms, db>>

\* mutant: the room is created with its creator as participant, and
\* add_participant is left to the joins that find the room
JoinCreate_embed(sid, ok) ==
    /\ Resumed(sid, "create")
    /\ LET f == frame[sid]
           participant == [socket_id |-> sid, user_id |-> f.user_id,
                           user_role |-> f.user_role]
           room_data == [room_id |-> f.room_id, created_by |-> f.user_id,
                         status |-> "active",
                         participants |-> <<participant>>,
                         messages |-> <<>>]
       IN
       /\ db' = RoomCreate(db, room_data)
       /\ out' = EmitRoom(UserJoinedTo(sid, f.room_id), {}, "user_joined",
                          f.user_id, f.user_role, "none")
                 \cup RoomJoinedAck(sid, f.room_id)
       /\ last' = Step("join_room", sid, f, "joined")
       /\ Finish(sid)
       /\ UNCHANGED <<conn, session, trooms>>

\* app.py:220-227 - the room is created
JoinCreate(sid, ok) ==
    /\ Resumed(sid, "create")
    /\ IF ~ok THEN JoinFails(sid)
       ELSE LET room_data == [room_id |-> frame[sid].room_id,
                              created_by |-> frame[sid].user_id,
                              status |-> "active",
                              participants |-> <<>>,
                              messages |-> <<>>]
            IN
            /\ db' = RoomCreate(db, room_data)
            /\ frame' = [frame EXCEPT ![sid].pc = "add"]
            /\ last' = Step("join_room", sid, frame[sid], "pending")
            /\ out' = {}
            /\ UNCHANGED <<conn, session, trooms>>

\* app.py:230-242 - the participant is added, the others are notified and
\* the joiner gets its ack
JoinAdd(sid, ok) ==
    /\ Resumed(sid, "add")
    /\ IF ~ok THEN JoinFails(sid)
       ELSE LET f == frame[sid]
                participant == [socket_id |-> sid, user_id |-> f.user_id,
                                user_role |-> f.user_role]
            IN
            /\ db' = AddParticipant(db, f.room_id, participant)
            /\ out' = EmitRoom(UserJoinedTo(sid, f.room_id), {}, "user_joined",
                               f.user_id, f.user_role, "none")
                      \cup RoomJoinedAck(sid, f.room_id)
            /\ last' = Step("join_room", sid, f, "joined")
            /\ Finish(sid)
            /\ UNCHANGED <<conn, session, trooms>>

(***************************************************************************)
(* leave_room.                                                             *)
(***************************************************************************)
\* app.py:275 - user_left goes to the room
UserLeftTo(sid, room_id) == trooms[room_id]

\* app.py:251-265 - the session and room_id checks, then leave_room(room_id)
LeaveStart(sid, room_id) ==
    /\ Ready(sid)
    /\ LET user_session == session[sid]
           f == [Idle EXCEPT !.user_id = user_session.user_id,
                             !.user_role = user_session.user_role,
                             !.room_id = room_id]
       IN IF NotAuthenticated(user_session)
          THEN /\ last' = Step("leave_room", sid, Idle, "unauthenticated")
               /\ UNCHANGED <<trooms, frame>>
          ELSE IF room_id = NoRoomId
          THEN /\ last' = Step("leave_room", sid, f, "invalid")
               /\ UNCHANGED <<trooms, frame>>
          ELSE /\ trooms' = [trooms EXCEPT ![room_id] = @ \ {sid}]
               /\ frame' = [frame EXCEPT ![sid] = [f EXCEPT !.pc = "remove"]]
               /\ last' = Step("leave_room", sid, f, "pending")
    /\ out' = {}
    /\ UNCHANGED <<conn, session, db>>

\* app.py:272-280 - the participant is removed and the room is notified;
\* the except clause only logs
LeaveRemove(sid, ok) ==
    /\ Resumed(sid, "remove")
    /\ LET f == frame[sid] IN
       IF ~ok
       THEN /\ out' = {}
            /\ last' = Step("leave_room", sid, f, "store_error")
            /\ UNCHANGED db
       ELSE /\ db' = RemoveParticipant(db, f.room_id, f.user_id)
            /\ out' = EmitRoom(UserLeftTo(sid, f.room_id), {}, "user_left",
                               f.user_id, "none", "none")
            /\ last' = Step("leave_room", sid, f, "left")
    /\ Finish(sid)
    /\ UNCHANGED <<conn, session, trooms>>

(***************************************************************************)
(* webrtc_signal.                                                          *)
(***************************************************************************)
NoSocket == "none"

Min(S) == CHOOSE x \in S : \A y \in S : x <= y

\* mutant: the loop over the participants misses the first one
TargetSocket_skipfirst(participants, target_id) ==
    LET hits == {i \in 2..Len(participants) :
                    PyStr(participants[i].user_id) = PyStr(target_id)}
    IN IF hits = {} THEN NoSocket ELSE participants[Min(hits)].socket_id

\* mutant: with no participant of that user_id the first participant is taken
TargetSocket_default(participants, target_id) ==
    LET hits == {i \in 1..Len(participants) :
                    PyStr(participants[i].user_id) = PyStr(target_id)}
    IN IF hits # {} THEN participants[Min(hits)].socket_id
       ELSE IF participants = <<>> THEN NoSocket
       ELSE participants[1].socket_id

\* app.py:321-325 - the socket_id of the first participant whose user_id,
\* as a string, is the target_id
TargetSocket(participants, target_id) ==
    LET hits == {i \in 1..Len(participants) :
                    PyStr(participants[i].user_id) = PyStr(target_id)}
    IN IF hits = {} THEN NoSocket ELSE participants[Min(hits)].socket_id

\* mutant: the signal is emitted without skip_sid
SignalBroadcastTo_noskip(sid, room_id) == trooms[room_id]

\* app.py:336-340 - the signal goes to the room, the sender skipped
SignalBroadcastTo(sid, room_id) == trooms[room_id] \ {sid}

SignalBroadcast(sid, f) ==
    /\ out' = EmitRoom(SignalBroadcastTo(sid, f.room_id), {}, "webrtc_signal",
                       f.user_id, f.user_role, f.signal)
    /\ last' = Step("webrtc_signal", sid, f, "broadcast")
    /\ Finish(sid)

\* the except clause of handle_webrtc_signal, app.py:342-344
SignalFails(sid, res) ==
    /\ out' = EmitSelf(sid, "signal_error", None, "none", "exception")
    /\ last' = Step("webrtc_signal", sid, frame[sid], res)
    /\ Finish(sid)
    /\ UNCHANGED <<conn, session, trooms, db>>

\* app.py:285-300 - the session, room_id and signal checks
SignalStart(sid, room_id, signal, target_id) ==
    /\ Ready(sid)
    /\ LET user_session == session[sid]
           f == [Idle EXCEPT !.user_id = user_session.user_id,
                             !.user_role = user_session.user_role,
                             !.room_id = room_id, !.signal = signal,
                             !.target_id = target_id]
       IN IF NotAuthenticated(user_session)
          THEN /\ out' = EmitSelf(sid, "signal_error", None, "none", "Not authenticated")
               /\ last' = Step("webrtc_signal", sid, Idle, "unauthenticated")
               /\ UNCHANGED frame
          ELSE IF room_id = NoRoomId \/ signal = NoSignal
          THEN /\ out' = EmitSelf(sid, "signal_error", None, "none",
                                  "Room ID and signal are required")
               /\ last' = Step("webrtc_signal", sid, Idle, "invalid")
               /\ UNCHANGED frame
          ELSE /\ Len(db[room_id].messages)
                    + InFlight(room_id, {"add_message"}) < MaxMessages
               /\ frame' = [frame EXCEPT ![sid] = [f EXCEPT !.pc = "add_message"]]
               /\ last' = Step("webrtc_signal", sid, f, "pending")
               /\ out' = {}
    /\ UNCHANGED <<conn, session, trooms, db>>

\* mutant: the signal is routed without being appended to the log
SignalAddMessage_nolog(sid, ok) ==
    /\ Resumed(sid, "add_message")
    /\ IF ~ok THEN SignalFails(sid, "log_error")
       ELSE LET f == frame[sid] IN
            /\ IF Truthy(f.target_id)
               THEN /\ frame' = [frame EXCEPT ![sid].pc = "find_target"]
                    /\ last' = Step("webrtc_signal", sid, f, "pending")
                    /\ out' = {}
               ELSE SignalBroadcast(sid, f)
            /\ UNCHANGED <<conn, session, trooms, db>>

\* app.py:306-317, 336-340 - the record is appended to the log; with no
\* target_id the signal is broadcast
SignalAddMessage(sid, ok) ==
    /\ Resumed(sid, "add_message")
    /\ IF ~ok THEN SignalFails(sid, "log_error")
       ELSE LET f == frame[sid]
                signal_data == [user_id |-> f.user_id, user_role |-> f.user_role,
                                signal |-> f.signal, target_id |-> f.target_id]
            IN
            /\ db' = AddMessage(db, f.room_id, signal_data)
            /\ IF Truthy(f.target_id)
               THEN /\ frame' = [frame EXCEPT ![sid].pc = "find_target"]
                    /\ last' = Step("webrtc_signal", sid, f, "pending")
                    /\ out' = {}
               ELSE SignalBroadcast(sid, f)
            /\ UNCHANGED <<conn, session, trooms>>

\* app.py:319-340 - the target is looked up among the participants: the
\* signal goes to its socket, or to the room when there is none
SignalFindTarget(sid, ok) ==
    /\ Resumed(sid, "find_target")
    /\ IF ~ok THEN SignalFails(sid, "find_error")
       ELSE LET f == frame[sid]
                room == FindByRoomId(db, f.room_id)
                target_socket == IF room.exists
                                 THEN TargetSocket(room.participants, f.target_id)
                                 ELSE NoSocket
            IN
            /\ IF target_socket # NoSocket
               THEN /\ out' = EmitSid(target_socket, "webrtc_signal",
                                      f.user_id, f.user_role, f.signal)
                    /\ last' = Step("webrtc_signal", sid, f, "targeted")
                    /\ Finish(sid)
               ELSE SignalBroadcast(sid, f)
            /\ UNCHANGED <<conn, session, trooms, db>>

(***************************************************************************)
(* The server writes the events a step emitted to their connections; the   *)
(* next step is taken after that.                                          *)
(***************************************************************************)
Flush ==
    /\ ~Flushed
    /\ last' = Step("none", "none", Idle, "none")
    /\ out' = {}
    /\ UNCHANGED <<conn, session, trooms, db, frame>>

(***************************************************************************)
(* The specification.                                                      *)
(***************************************************************************)
\* the steps that resume a suspended handler
Resume ==
    \/ \E sid \in Sids : \E ok \in BOOLEAN : JoinFind(sid, ok)
    \/ \E sid \in Sids : \E ok \in BOOLEAN : JoinCreate(sid, ok)
    \/ \E sid \in Sids : \E ok \in BOOLEAN : JoinAdd(sid, ok)
    \/ \E sid \in Leavers : \E ok \in BOOLEAN : LeaveRemove(sid, ok)
    \/ \E sid \in Senders : \E ok \in BOOLEAN : SignalAddMessage(sid, ok)
    \/ \E sid \in Senders : \E ok \in BOOLEAN : SignalFindTarget(sid, ok)

\* no handler is suspended
Quiet == \A s \in Sids : frame[s].pc = "idle"

Next ==
    \/ Flush
    \/ \E sid \in Closers : Quiet /\ HandleDisconnect(sid)
    \/ \E sid \in Sids : \E token \in TokensOf(sid) :
         Quiet /\ HandleAuthenticate(sid, token)
    \/ \E sid \in Sids : \E room_id \in RoomIds \cup {NoRoomId} :
         Quiet /\ JoinStart(sid, room_id)
    \/ \E sid \in Leavers : \E room_id \in RoomIds \cup {NoRoomId} :
         Quiet /\ LeaveStart(sid, room_id)
    \/ \E sid \in Senders : \E d \in SignalInputs :
         Quiet /\ SignalStart(sid, d.room_id, d.signal, d.target_id)
    \/ Resume

Spec == Init /\ [][Next]_vars

(***************************************************************************)
(* Concurrent joins: the clients authenticate and join, the store does not *)
(* fail, and the join handlers interleave at their store calls.            *)
(***************************************************************************)
NextConc ==
    \/ Flush
    \/ \E sid \in Sids : \E token \in TokensOf(sid) \cap ValidTokens :
         HandleAuthenticate(sid, token)
    \/ \E sid \in Sids : \E room_id \in RoomIds : JoinStart(sid, room_id)
    \/ \E sid \in Sids : JoinFind(sid, TRUE)
    \/ \E sid \in Sids : JoinCreate(sid, TRUE)
    \/ \E sid \in Sids : JoinAdd(sid, TRUE)

SpecConc == Init /\ [][NextConc]_vars

(***************************************************************************)
(* Properties.  last and out describe the step just taken, the other       *)
(* variables the state it has led to.                                      *)
(***************************************************************************)
\* the events of a kind emitted by the step, and the connections they reach
Emitted(event) == {m \in out : m.event = event}
Reached(event) == {m.to : m \in Emitted(event)}

\* the webrtc_signal handler has reached one of its emits
Routed == last.op = "webrtc_signal" /\ last.res \in {"targeted", "broadcast"}

\* the webrtc_signal the step delivers to connection d
SignalTo(d) == Msg(d, "webrtc_signal", last.user_id, last.user_role, last.signal)

Participants(room_id) == db[room_id].participants

SocketsOf(ps) == {ps[i].socket_id : i \in 1..Len(ps)}
UsersOf(ps) == {ps[i].user_id : i \in 1..Len(ps)}

\* the participants list holds three distinct users on three distinct
\* connections, all of them in the transport room
ThreeJoined(room_id) ==
    LET ps == Participants(room_id) IN
    /\ db[room_id].exists
    /\ Len(ps) = 3
    /\ Cardinality(SocketsOf(ps)) = 3
    /\ Cardinality(UsersOf(ps)) = 3
    /\ SocketsOf(ps) \subseteq trooms[room_id]

\* the connections of the participants whose user_id is the target_id
SocketsOfUser(ps, target_id) ==
    {ps[i].socket_id : i \in {j \in 1..Len(ps) : ps[j].user_id = target_id}}

\* C1: in a room whose participants are three distinct users on three
\* joined connections, a signal of one of them with the user_id of another
\* as target_id is delivered once, to that other's connection, and to no
\* other connection.
C1_TargetedRouting ==
    (/\ Routed
     /\ ThreeJoined(last.room_id)
     /\ last.sid \in SocketsOf(Participants(last.room_id))
     /\ SocketsOfUser(Participants(last.room_id), last.target_id) \ {last.sid} # {})
    => \E b \in SocketsOfUser(Participants(last.room_id), last.target_id) :
          out = {SignalTo(b)}

C1_Witness ==
    /\ Routed
    /\ ThreeJoined(last.room_id)
    /\ last.sid = "s1"
    /\ last.target_id = StrVal("2")
    /\ out = {SignalTo("s2")}

\* the target_id matches the user_id of a participant (by their strings)
Matches(room_id, target_id) ==
    /\ db[room_id].exists
    /\ \E i \in 1..Len(Participants(room_id)) :
          PyStr(Participants(room_id)[i].user_id) = PyStr(target_id)

\* C2: a signal without target_id is delivered to the connections joined
\* to the room other than the sender, and to no other connection.
C2_UntargetedBroadcast ==
    (Routed /\ ~Truthy(last.target_id))
    => out = {SignalTo(d) : d \in trooms[last.room_id] \ {last.sid}}

C2_Witness ==
    /\ Routed
    /\ ~Truthy(last.target_id)
    /\ last.sid \in trooms[last.room_id]
    /\ Reached("webrtc_signal") = {"s2"}
    /\ conn["s3"] = "open"

\* C3: a signal whose target_id matches no participant of the room, or
\* whose room has no document, is delivered to the connections joined to
\* the room other than the sender.
C3_FallbackBroadcast ==
    (Routed /\ Truthy(last.target_id) /\ ~Matches(last.room_id, last.target_id))
    => out = {SignalTo(d) : d \in trooms[last.room_id] \ {last.sid}}

C3_Witness ==
    /\ Routed
    /\ Truthy(last.target_id)
    /\ Participants(last.room_id) # <<>>
    /\ ~Matches(last.room_id, last.target_id)
    /\ last.sid \in trooms[last.room_id]
    /\ Reached("webrtc_signal") # {}

\* a join_room or webrtc_signal event arrives on connection sid
Arrives(sid, op) ==
    /\ Flushed /\ Quiet /\ conn[sid] = "open"
    /\ last'.op = op /\ last'.sid = sid

\* C4: on a connection with no identity bound, join_room is answered with
\* room_error and webrtc_signal with signal_error, on that connection only,
\* and nothing else changes: no room document, participant, message,
\* transport room or session.
C4_UnauthenticatedRejected ==
    [][\A sid \in Sids :
         /\ (Arrives(sid, "join_room") /\ ~session[sid].bound)
            => /\ out' = {Msg(sid, "room_error", None, "none", "Not authenticated")}
               /\ UNCHANGED <<conn, session, trooms, db, frame>>
         /\ (Arrives(sid, "webrtc_signal") /\ ~session[sid].bound)
            => /\ out' = {Msg(sid, "signal_error", None, "none", "Not authenticated")}
               /\ UNCHANGED <<conn, session, trooms, db, frame>>]_vars

C4_Witness ==
    /\ last.op = "webrtc_signal"
    /\ last.res = "unauthenticated"
    /\ ~session[last.sid].bound
    /\ trooms["r1"] # {}
    /\ out = {Msg(last.sid, "signal_error", None, "none", "Not authenticated")}

\* C5: a join_room with a room_id on a connection with an identity bound
\* is not rejected, and when it succeeds exactly one room_joined is
\* emitted: to the joiner, and to no other connection.
C5_JoinAck ==
    /\ (last.op = "join_room" /\ last.res = "unauthenticated")
       => ~session[last.sid].bound
    /\ (last.op = "join_room" /\ last.res = "joined")
       => Emitted("room_joined")
            = {Msg(last.sid, "room_joined", None, "none", last.room_id)}

C5_Witness ==
    /\ last.op = "join_room"
    /\ last.res = "joined"
    /\ trooms[last.room_id] \ {last.sid} # {}
    /\ Reached("room_joined") = {last.sid}

\* the participant record of the join that the step completes
Joiner == [socket_id |-> last'.sid, user_id |-> last'.user_id,
           user_role |-> last'.user_role]

\* C6: when a join_room succeeds every other connection joined to the
\* room gets one user_joined with the user_id and role bound to the
\* joiner, the joiner gets none, the room document exists - created, if it
\* was absent, with created_by the joiner's user_id - and a participant
\* record with the joiner's connection id is appended to its participants.
C6_JoinEffects ==
    [][/\ (last'.op = "join_room" /\ last'.res = "joined")
          => /\ Joiner.user_id = session[last'.sid].user_id
             /\ Joiner.user_role = session[last'.sid].user_role
             /\ {m \in out' : m.event = "user_joined"}
                  = {Msg(d, "user_joined", Joiner.user_id, Joiner.user_role, "none") :
                        d \in trooms[last'.room_id] \ {last'.sid}}
             /\ db[last'.room_id].exists
             /\ db'[last'.room_id] =
                  [db[last'.room_id] EXCEPT
                      !.participants = Append(@, Joiner)]
       /\ (/\ last'.op = "join_room"
           /\ frame[last'.sid].pc = "find"
           /\ last'.res = "pending"
           /\ ~db[last'.room_id].exists)
          => frame'[last'.sid].pc = "create"
       /\ (/\ last'.op = "join_room"
           /\ frame[last'.sid].pc = "create"
           /\ last'.res = "pending"
           /\ ~db[last'.room_id].exists)
          => db'[last'.room_id] =
                [exists |-> TRUE, created_by |-> last'.user_id,
                 status |-> "active", participants |-> <<>>,
                 messages |-> <<>>]]_vars

C6_Witness ==
    /\ last.op = "join_room"
    /\ last.res = "joined"
    /\ Reached("user_joined") = {"s1", "s2"}
    /\ db[last.room_id].created_by = StrVal("2")
    /\ Len(Participants(last.room_id)) = 3

\* C7: when a connection joined to a room disconnects, its session is
\* dropped, its participant record is removed from the room and the
\* remaining members of the room get user_left with its user_id.
C7_DisconnectCleanup ==
    [][\A room_id \in RoomIds :
         (last'.op = "disconnect" /\ last'.sid \in trooms[room_id]
            /\ session[last'.sid].bound)
         => /\ ~session'[last'.sid].bound
            /\ last'.sid \notin SocketsOf(db'[room_id].participants)
            /\ \A d \in trooms'[room_id] :
                  Msg(d, "user_left", session[last'.sid].user_id, "none", "none")
                     \in out']_vars

\* C8: a leave_room for a room in which the caller has no participant
\* record (it never joined, or it has left) changes no participants list
\* and emits nothing.
C8_LeaveIdempotent ==
    [][(/\ last'.op = "leave_room"
        /\ last'.res \in {"left", "store_error"}
        /\ last'.sid \notin SocketsOf(Participants(last'.room_id)))
       => /\ db' = db
          /\ out' = {}]_vars

Delivery ==
    LET room == db[last.room_id]
        target_socket == IF Truthy(last.target_id) /\ room.exists
                         THEN TargetSocket(room.participants, last.target_id)
                         ELSE NoSocket
    IN IF target_socket # NoSocket
       THEN {SignalTo(d) : d \in {e \in Sids : e = target_socket /\ conn[e] = "open"}}
       ELSE {SignalTo(d) : d \in trooms[last.room_id] \ {last.sid}}

\* C10: when the append of the record to the message log fails, the signal
\* is delivered as it is when the append succeeds.
C10_LogAndContinue ==
    (last.op = "webrtc_signal" /\ last.res = "log_error")
    => Delivery \subseteq out

\* C11: a join_room that ends in room_error - no room_id, no identity, or a
\* failure of find_by_room_id, create or add_participant - leaves the
\* transport rooms and the room documents as the event found them, and
\* emits no user_joined.
C11_FailedJoinNoEffect ==
    [][/\ (last'.op = "join_room" /\ last'.res \in {"unauthenticated", "invalid"})
          => /\ UNCHANGED <<trooms, db>>
             /\ {m \in out' : m.event = "user_joined"} = {}
       /\ (last'.op = "join_room" /\ last'.res = "store_error")
          => /\ trooms' = frame[last'.sid].before.trooms
             /\ db' = frame[last'.sid].before.db
             /\ {m \in out' : m.event = "user_joined"} = {}]_vars

\* the handler step just taken ended in its except clause, or in the
\* failure branch of authenticate
InternalFailure ==
    \/ last.res \in {"store_error", "log_error", "find_error"}
    \/ (last.op = "authenticate" /\ last.res = "auth_error")

ErrorEvents == {"auth_error", "room_error", "signal_error"}

\* C12: an internal failure in authenticate, join_room, leave_room or
\* webrtc_signal is answered with one typed error event, sent to the
\* connection the event came from and to no other, and that connection
\* stays open.
C12_FailuresAnswered ==
    InternalFailure =>
        /\ conn[last.sid] = "open"
        /\ Cardinality(out) = 1
        /\ \A m \in out : m.to = last.sid /\ m.event \in ErrorEvents

\* C13: no participants list holds two records with the same connection
\* id, also when a connection joins the same room more than once.
C13_NoDuplicateConnection ==
    \A r \in RoomIds :
        Cardinality(SocketsOf(Participants(r))) = Len(Participants(r))

\* C14: no webrtc_signal is delivered to the connection that sent it,
\* whatever its target_id, the sender's own user_id included.
C14_NoEchoToSender ==
    last.op = "webrtc_signal" => last.sid \notin Reached("webrtc_signal")

\* C15: an authenticate without a token or with a token that does not
\* decode emits auth_error to the connection it came from, to no other, and
\* leaves every binding as it was; an authenticate with a valid token binds
\* the connection to the user_id and role of the token, over any earlier
\* binding, and changes no other binding.
C15_AuthenticateBinding ==
    [][\A sid \in Sids : \A token \in TokensOf(sid) :
          HandleAuthenticate(sid, token) =>
              IF token \in ValidTokens
              THEN /\ session' = [session EXCEPT ![sid] =
                          [bound |-> TRUE,
                           user_id |-> TokenClaims(token).user_id,
                           user_role |-> TokenClaims(token).role]]
                   /\ {m \in out' : m.event = "auth_error"} = {}
              ELSE /\ session' = session
                   /\ out' # {}
                   /\ \A m \in out' : m.to = sid /\ m.event = "auth_error"]_vars

\* a connection with an identity bound has just failed an authenticate and
\* is still bound
C15_Witness ==
    /\ last.op = "authenticate" /\ last.res = "auth_error"
    /\ session[last.sid].bound
    /\ Reached("auth_error") = {last.sid}

IsPrefix(s, t) == Len(s) <= Len(t) /\ SubSeq(t, 1, Len(s)) = s

\* the SignalRecord of the event a handler frame (or the step record) is for
SignalRecord(f) == [user_id |-> f.user_id, user_role |-> f.user_role,
                    signal |-> f.signal, target_id |-> f.target_id]

Log(room_id) == db[room_id].messages

LiveOf(room_id, target_id) ==
    {s \in trooms[room_id] :
        /\ conn[s] = "open"
        /\ \E i \in 1..Len(Participants(room_id)) :
              /\ Participants(room_id)[i].socket_id = s
              /\ PyStr(Participants(room_id)[i].user_id) = PyStr(target_id)}

\* C17: when the user named by target_id has an open connection joined to
\* the room, the webrtc_signal is delivered to an open connection of that
\* user - also when an earlier connection of the user has closed and the
\* user joined again on a new one.
C17_TargetReachesLive ==
    (/\ Routed
     /\ Truthy(last.target_id)
     /\ LiveOf(last.room_id, last.target_id) # {})
        => Reached("webrtc_signal") \cap LiveOf(last.room_id, last.target_id) # {}

\* C18: between events, the connection ids in a room's participants list
\* are the open connections in the room's transport group.
C18_MembershipConsistent ==
    (Flushed /\ Quiet) =>
        \A r \in RoomIds :
            SocketsOf(Participants(r)) = {s \in trooms[r] : conn[s] = "open"}

\* C19: every participant record of an open connection carries the user_id
\* and role now bound to that connection.
C19_IdentityConsistent ==
    \A r \in RoomIds : \A i \in 1..Len(Participants(r)) :
        LET p == Participants(r)[i] IN
        conn[p.socket_id] = "open" =>
            session[p.socket_id] = [bound |-> TRUE, user_id |-> p.user_id,
                                    user_role |-> p.user_role]

\* the connection is in the room's transport group or has a participant
\* record in the room
JoinedTo(sid, room_id) ==
    sid \in trooms[room_id] \/ sid \in SocketsOf(Participants(room_id))

\* C20: a webrtc_signal naming a room reaches a connection, or is appended
\* to the room's log, only when its sender is joined to the room.
C20_RoomIsolation ==
    (/\ last.op = "webrtc_signal"
     /\ \/ Reached("webrtc_signal") # {}
        \/ /\ last.res \in {"targeted", "broadcast"}
           /\ Log(last.room_id) # <<>>
           /\ Log(last.room_id)[Len(Log(last.room_id))] = SignalRecord(last))
        => JoinedTo(last.sid, last.room_id)

====
